---- MODULE Spec2Model ----
(***************************************************************************)
(* Model of stylised_images.ipynb: the letterbox normalizer                *)
(* resize_and_pad, the sweep driver generate_images and the batch loop     *)
(* over the prompt list.                                                   *)
(*                                                                         *)
(* Python's `/` on two ints and on an int and a float is IEEE-754 binary64 *)
(* arithmetic, rounded to nearest, ties to even; int() truncates toward    *)
(* zero.  The quotient and the product are computed here bit by bit, as    *)
(* the hardware does, because the rounding of width / height shows in the  *)
(* result (int(9 / (9 / 7)) is 6, not 7).                                  *)
(***************************************************************************)
EXTENDS Integers, Sequences, FiniteSets, TLC

(***************************************************************************)
(* Naturals too wide for one machine integer (a 53-bit significand, its    *)
(* products and quotients) are held as five limbs of 14 bits each, least   *)
(* significant limb first.                                                 *)
(***************************************************************************)
LimbBits == 14
LimbBase == 16384

RECURSIVE Pow2(_)
Pow2(k) == IF k <= 0 THEN 1 ELSE 2 * Pow2(k - 1)

RECURSIVE NatBitLen(_)
NatBitLen(n) == IF n = 0 THEN 0 ELSE 1 + NatBitLen(n \div 2)

BigZero == <<0, 0, 0, 0, 0>>

BigOfNat(n) ==
    <<n % LimbBase, (n \div LimbBase) % LimbBase, n \div (LimbBase * LimbBase), 0, 0>>

\* for a value below 2^31
BigToNat(a) == a[1] + a[2] * LimbBase + a[3] * LimbBase * LimbBase

TopLimb(a) ==
    LET nz == {i \in 1..5 : a[i] # 0}
    IN  IF nz = {} THEN 0 ELSE CHOOSE i \in nz : \A j \in nz : j <= i

BigBitLen(a) ==
    LET t == TopLimb(a)
    IN  IF t = 0 THEN 0 ELSE LimbBits * (t - 1) + NatBitLen(a[t])

BigGeq(a, b) ==
    LET d == {i \in 1..5 : a[i] # b[i]}
    IN  d = {} \/ LET t == CHOOSE i \in d : \A j \in d : j <= i IN a[t] > b[t]

\* a * k + c for small naturals k and c
BigMulAdd(a, k, c) ==
    LET v1 == a[1] * k + c
        v2 == a[2] * k + v1 \div LimbBase
        v3 == a[3] * k + v2 \div LimbBase
        v4 == a[4] * k + v3 \div LimbBase
        v5 == a[5] * k + v4 \div LimbBase
    IN  <<v1 % LimbBase, v2 % LimbBase, v3 % LimbBase, v4 % LimbBase, v5 % LimbBase>>

\* a - b, for a >= b
BigSub(a, b) ==
    LET d1 == a[1] - b[1]
        d2 == a[2] - b[2] - (IF d1 < 0 THEN 1 ELSE 0)
        d3 == a[3] - b[3] - (IF d2 < 0 THEN 1 ELSE 0)
        d4 == a[4] - b[4] - (IF d3 < 0 THEN 1 ELSE 0)
        d5 == a[5] - b[5] - (IF d4 < 0 THEN 1 ELSE 0)
    IN  <<(d1 + LimbBase) % LimbBase, (d2 + LimbBase) % LimbBase,
          (d3 + LimbBase) % LimbBase, (d4 + LimbBase) % LimbBase,
          (d5 + LimbBase) % LimbBase>>

\* floor(a / 2^k)
BigShiftRight(a, k) ==
    LET q == k \div LimbBits
        r == k % LimbBits
        L(j) == IF j <= 5 THEN a[j] ELSE 0
        limb(i) == L(i + q) \div Pow2(r) + (L(i + q + 1) % Pow2(r)) * Pow2(LimbBits - r)
    IN  <<limb(1), limb(2), limb(3), limb(4), limb(5)>>

\* a * 2^k
RECURSIVE BigShiftLeft(_, _)
BigShiftLeft(a, k) == IF k <= 0 THEN a ELSE BigShiftLeft(BigMulAdd(a, 2, 0), k - 1)

\* a mod 2^k # 0
BigLowBitsSet(a, k) ==
    LET q == k \div LimbBits
        r == k % LimbBits
    IN  \/ \E i \in 1..5 : i <= q /\ a[i] # 0
        \/ q < 5 /\ a[q + 1] % Pow2(r) # 0

(***************************************************************************)
(* binary64 values: sign * m * 2^e with 2^52 <= m < 2^53, or zero (m = 0). *)
(* All values met here are normal numbers.                                 *)
(***************************************************************************)
Precision == 53

FloatZero == [sign |-> 1, m |-> BigZero, e |-> 0]

\* q * 2^e (plus, when sticky, something below the last bit of q), rounded to
\* nearest, ties to even
RoundNearestEven(sign, q, e, sticky) ==
    LET n == BigBitLen(q)
        d == n - Precision
    IN  IF n = 0 THEN FloatZero
        ELSE IF d <= 0 THEN [sign |-> sign, m |-> BigShiftLeft(q, -d), e |-> e + d]
        ELSE
        LET keep == BigShiftRight(q, d)
            half == BigShiftRight(q, d - 1)[1] % 2
            rest == sticky \/ BigLowBitsSet(q, d - 1)
            up   == half = 1 /\ (rest \/ keep[1] % 2 = 1)
            m1   == IF up THEN BigMulAdd(keep, 1, 1) ELSE keep
        IN  IF BigBitLen(m1) > Precision
            THEN [sign |-> sign, m |-> BigShiftRight(m1, 1), e |-> e + d + 1]
            ELSE [sign |-> sign, m |-> m1, e |-> e + d]

\* one step of long division: bring down a bit, subtract when it fits
DivStep(st, bit, den) ==
    LET r1 == BigMulAdd(st.r, 2, bit)
    IN  IF BigGeq(r1, den)
        THEN [r |-> BigSub(r1, den), q |-> BigMulAdd(st.q, 2, 1)]
        ELSE [r |-> r1, q |-> BigMulAdd(st.q, 2, 0)]

\* bit i (1 = most significant) of the natural num of len bits, followed by zeros
NumBit(num, len, i) == IF i <= len THEN (num \div Pow2(len - i)) % 2 ELSE 0

\* long division steps lo..hi, in order (the test on left only makes the
\* first half be computed before the second half is entered)
RECURSIVE DivSteps(_, _, _, _, _, _)
DivSteps(st, num, len, den, lo, hi) ==
    IF lo > hi THEN st
    ELSE IF lo = hi THEN DivStep(st, NumBit(num, len, lo), den)
    ELSE LET mid == (lo + hi) \div 2
             left == DivSteps(st, num, len, den, lo, mid)
         IN  IF left.r = left.r THEN DivSteps(left, num, len, den, mid + 1, hi) ELSE st

\* the binary64 nearest to num / (den * 2^eden), for a natural num and den # 0
Divide(sign, num, den, eden) ==
    IF num = 0 THEN FloatZero
    ELSE
    LET nbits == NatBitLen(num)
        shift == Precision + 1 + BigBitLen(den) - nbits
        res   == DivSteps([r |-> BigZero, q |-> BigZero], num, nbits, den, 1, nbits + shift)
    IN  RoundNearestEven(sign, res.q, -shift - eden, res.r # BigZero)

Abs(n) == IF n < 0 THEN -n ELSE n
Sign(n) == IF n < 0 THEN -1 ELSE 1

\* int / int (true division), for den # 0
IntTrueDiv(num, den) ==
    Divide(Sign(num) * Sign(den), Abs(num), BigOfNat(Abs(den)), 0)

\* int / float, for a nonzero float
IntDivFloat(n, x) == Divide(Sign(n) * x.sign, Abs(n), x.m, x.e)

\* int * float
IntMulFloat(n, x) ==
    RoundNearestEven(Sign(n) * x.sign, BigMulAdd(x.m, Abs(n), 0), x.e, FALSE)

\* float > 1
FloatGtOne(x) ==
    /\ x.m # BigZero
    /\ x.sign = 1
    /\ \/ x.e + Precision - 1 > 0
       \/ x.e + Precision - 1 = 0 /\ BigLowBitsSet(x.m, Precision - 1)

\* (a variant that rounds to the nearest integer instead of truncating)
RoundOfFloat(x) ==
    IF x.m = BigZero THEN 0
    ELSE IF x.e >= 0 THEN x.sign * BigToNat(BigShiftLeft(x.m, x.e))
    ELSE x.sign * (BigToNat(BigShiftRight(x.m, -x.e))
                   + (BigShiftRight(x.m, -x.e - 1)[1] % 2))

\* int(float): truncation toward zero, for a value below 2^31
IntOfFloat(x) ==
    IF x.m = BigZero \/ Precision + x.e <= 0 THEN 0
    ELSE IF x.e >= 0 THEN x.sign * BigToNat(BigShiftLeft(x.m, x.e))
    ELSE x.sign * BigToNat(BigShiftRight(x.m, -x.e))

(***************************************************************************)
(* Bounds of the model.                                                    *)
(***************************************************************************)
MaxDim    == 9   \* widths and heights of images handed to resize_and_pad: 0..MaxDim
MaxTarget == 9   \* largest target_size
MaxNeg    == 1   \* target sizes go down to -MaxNeg
MaxPasses == 2   \* a direct caller normalizes its own output up to this many times
MaxN      == 2   \* largest n (images per prompt) handed to generate_images
MaxSize   == 3   \* largest size handed to generate_images
MaxRaw    == 3   \* widths and heights of the images the pipeline returns: 1..MaxRaw
MaxBatch  == 3   \* the pipeline returns 0..MaxBatch images, whatever n it was given

(***************************************************************************)
(* Images.  A pixel is a triple; <<0, 0, 0>> is black.  Test content is    *)
(* <<tag, x, y>> with tag >= 1, so that content, its position and its      *)
(* origin can be told apart from padding.                                  *)
(***************************************************************************)
Unbound == << >>

Coords(w, h) == (0..(w - 1)) \X (0..(h - 1))

SourceImage(tag, w, h) ==
    [width |-> w, height |-> h, px |-> [c \in Coords(w, h) |-> <<tag, c[1], c[2]>>]]

\* The resampling filter: every output pixel is a weighted sum of the source
\* pixels around its preimage.  Kept abstract: the tag of the source pixel at
\* the preimage, marked as resampled, at the output position.
Resampled == 100

Lanczos(src, w, h) ==
    LET sample(c) ==
            <<src.px[<<(c[1] * src.width) \div w, (c[2] * src.height) \div h>>][1] + Resampled,
              c[1], c[2]>>
    IN  [width |-> w, height |-> h, px |-> [c \in Coords(w, h) |-> sample(c)]]

NoExc == [type |-> "none", origin |-> "none"]

\* Image.resize(size, Image.LANCZOS): a copy when the size is the image's own,
\* ValueError("height and width must be > 0") for a size below 1, else the
\* resampled image
ImageResize(src, w, h) ==
    IF src.width = w /\ src.height = h THEN [exc |-> NoExc, image |-> <<src>>]
    ELSE IF w < 1 \/ h < 1
    THEN [exc |-> [type |-> "ValueError", origin |-> "Image.resize"], image |-> Unbound]
    ELSE [exc |-> NoExc, image |-> <<Lanczos(src, w, h)>>]

FillColor == <<0, 0, 0>>

\* Image.new('RGB', (w, h), (0, 0, 0)); ValueError for a negative size
ImageNew(w, h) ==
    IF w < 0 \/ h < 0
    THEN [exc |-> [type |-> "ValueError", origin |-> "Image.new"], image |-> Unbound]
    ELSE [exc |-> NoExc,
          image |-> <<[width |-> w, height |-> h, px |-> [c \in Coords(w, h) |-> FillColor]]>>]

\* canvas.paste(im, (x, y)): the pixels of im overwrite the canvas from (x, y),
\* clipped to the canvas
ImagePaste(canvas, im, x, y) ==
    [canvas EXCEPT !.px =
        [c \in Coords(canvas.width, canvas.height) |->
            IF /\ x <= c[1] /\ c[1] < x + im.width
               /\ y <= c[2] /\ c[2] < y + im.height
            THEN im.px[<<c[1] - x, c[2] - y>>]
            ELSE canvas.px[c]]]

(***************************************************************************)
(* The arithmetic of resize_and_pad.                                       *)
(***************************************************************************)
\* aspect_ratio = image.width / image.height, for height # 0
AspectRatio(img) == IntTrueDiv(img.width, img.height)

\* if aspect_ratio > 1
IsWide(ar) == FloatGtOne(ar)

\* new_height = int(target_size / aspect_ratio)
WideHeight(T, ar) == IntOfFloat(IntDivFloat(T, ar))

\* new_width = int(target_size * aspect_ratio)
TallWidth(T, ar) == IntOfFloat(IntMulFloat(T, ar))

\* (a variant that rounds the offset up instead of down)
PasteOffsetCeil(T, n) == (T - n + 1) \div 2

\* (target_size - new_width) // 2, and the same for the height
PasteOffset(T, n) == (T - n) \div 2

\* (a variant that pastes the unscaled image)
PasteArgumentOriginal(img, resized) == img

\* the image handed to new_image.paste
PasteArgument(img, resized) == resized

(***************************************************************************)
(* State.                                                                  *)
(***************************************************************************)
VARIABLES
    \* the frame of resize_and_pad; a local is Unbound or <<value>>
    rp_pc, rp_caller, image, target_size, aspect_ratio, new_width, new_height,
    resized_image, new_image, paste_x, paste_y, rp_ret, rp_exc,
    \* a direct caller of resize_and_pad: the pass it is in, the previous result
    pass, prev_ret,
    \* the frame of generate_images
    gi_pc, gi_args, images_resized, images, loop_i, gi_ret, gi_exc,
    \* the cell that loops over the prompts
    cell_pc, prompt_i, kwargs, cell_exc,
    \* what the program did to its surroundings: the pipeline calls, the grids
    \* displayed, the invocations of generate_images and how each ended
    calls, displayed, invocations

rp_vars == <<rp_pc, rp_caller, image, target_size, aspect_ratio, new_width, new_height,
             resized_image, new_image, paste_x, paste_y, rp_ret, rp_exc>>
direct_vars == <<pass, prev_ret>>
gi_vars == <<gi_pc, gi_args, images_resized, images, loop_i, gi_ret, gi_exc>>
cell_vars == <<cell_pc, prompt_i, kwargs, cell_exc>>
env_vars == <<calls, displayed, invocations>>
vars == <<rp_vars, direct_vars, gi_vars, cell_vars, env_vars>>

(***************************************************************************)
(* resize_and_pad(image, target_size), statement by statement.             *)
(***************************************************************************)
\* a call: the arguments bound, every local unbound
EnterResizeAndPad(img, T, caller) ==
    /\ rp_pc' = "l134"
    /\ rp_caller' = caller
    /\ image' = <<img>>
    /\ target_size' = <<T>>
    /\ aspect_ratio' = Unbound
    /\ new_width' = Unbound
    /\ new_height' = Unbound
    /\ resized_image' = Unbound
    /\ new_image' = Unbound
    /\ paste_x' = Unbound
    /\ paste_y' = Unbound
    /\ rp_ret' = Unbound
    /\ rp_exc' = NoExc

\* the frame is gone once the caller has taken the result
LeaveResizeAndPad ==
    /\ rp_pc' = "idle"
    /\ rp_caller' = "none"
    /\ image' = Unbound
    /\ target_size' = Unbound
    /\ aspect_ratio' = Unbound
    /\ new_width' = Unbound
    /\ new_height' = Unbound
    /\ resized_image' = Unbound
    /\ new_image' = Unbound
    /\ paste_x' = Unbound
    /\ paste_y' = Unbound
    /\ rp_ret' = Unbound
    /\ rp_exc' = NoExc

RaiseInResizeAndPad(exc) ==
    /\ rp_pc' = "raised"
    /\ rp_exc' = exc

\* aspect_ratio = image.width / image.height
ComputeAspectRatio ==
    /\ rp_pc = "l134"
    /\ IF image[1].height = 0
       THEN /\ RaiseInResizeAndPad([type |-> "ZeroDivisionError", origin |-> "division"])
            /\ UNCHANGED aspect_ratio
       ELSE /\ aspect_ratio' = <<AspectRatio(image[1])>>
            /\ rp_pc' = "l135"
            /\ UNCHANGED rp_exc
    /\ UNCHANGED <<rp_caller, image, target_size, new_width, new_height, resized_image,
                   new_image, paste_x, paste_y, rp_ret>>
    /\ UNCHANGED <<direct_vars, gi_vars, cell_vars, env_vars>>

\* if aspect_ratio > 1: new_width = target_size; new_height = int(target_size / aspect_ratio)
ScaleWide ==
    /\ rp_pc = "l135"
    /\ IsWide(aspect_ratio[1])
    /\ new_width' = target_size
    /\ new_height' = <<WideHeight(target_size[1], aspect_ratio[1])>>
    /\ rp_pc' = "l142"
    /\ UNCHANGED <<rp_caller, image, target_size, aspect_ratio, resized_image, new_image,
                   paste_x, paste_y, rp_ret, rp_exc>>
    /\ UNCHANGED <<direct_vars, gi_vars, cell_vars, env_vars>>

\* else: new_height = target_size; new_width = int(target_size * aspect_ratio)
ScaleTall ==
    /\ rp_pc = "l135"
    /\ ~IsWide(aspect_ratio[1])
    /\ new_height' = target_size
    /\ new_width' = <<TallWidth(target_size[1], aspect_ratio[1])>>
    /\ rp_pc' = "l142"
    /\ UNCHANGED <<rp_caller, image, target_size, aspect_ratio, resized_image, new_image,
                   paste_x, paste_y, rp_ret, rp_exc>>
    /\ UNCHANGED <<direct_vars, gi_vars, cell_vars, env_vars>>

\* resized_image = image.resize((new_width, new_height), Image.LANCZOS)
Resize ==
    /\ rp_pc = "l142"
    /\ LET r == ImageResize(image[1], new_width[1], new_height[1])
       IN  IF r.exc # NoExc
           THEN /\ RaiseInResizeAndPad(r.exc)
                /\ UNCHANGED resized_image
           ELSE /\ resized_image' = r.image
                /\ rp_pc' = "l145"
                /\ UNCHANGED rp_exc
    /\ UNCHANGED <<rp_caller, image, target_size, aspect_ratio, new_width, new_height,
                   new_image, paste_x, paste_y, rp_ret>>
    /\ UNCHANGED <<direct_vars, gi_vars, cell_vars, env_vars>>

\* new_image = Image.new('RGB', (target_size, target_size), (0, 0, 0))
NewCanvas ==
    /\ rp_pc = "l145"
    /\ LET r == ImageNew(target_size[1], target_size[1])
       IN  IF r.exc # NoExc
           THEN /\ RaiseInResizeAndPad(r.exc)
                /\ UNCHANGED new_image
           ELSE /\ new_image' = r.image
                /\ rp_pc' = "l148"
                /\ UNCHANGED rp_exc
    /\ UNCHANGED <<rp_caller, image, target_size, aspect_ratio, new_width, new_height,
                   resized_image, paste_x, paste_y, rp_ret>>
    /\ UNCHANGED <<direct_vars, gi_vars, cell_vars, env_vars>>

\* paste_x = (target_size - new_width) // 2; paste_y = (target_size - new_height) // 2
ComputePasteOffsets ==
    /\ rp_pc = "l148"
    /\ paste_x' = <<PasteOffset(target_size[1], new_width[1])>>
    /\ paste_y' = <<PasteOffset(target_size[1], new_height[1])>>
    /\ rp_pc' = "l150"
    /\ UNCHANGED <<rp_caller, image, target_size, aspect_ratio, new_width, new_height,
                   resized_image, new_image, rp_ret, rp_exc>>
    /\ UNCHANGED <<direct_vars, gi_vars, cell_vars, env_vars>>

\* new_image.paste(resized_image, (paste_x, paste_y))
Paste ==
    /\ rp_pc = "l150"
    /\ new_image' = <<ImagePaste(new_image[1], PasteArgument(image[1], resized_image[1]),
                                 paste_x[1], paste_y[1])>>
    /\ rp_pc' = "l152"
    /\ UNCHANGED <<rp_caller, image, target_size, aspect_ratio, new_width, new_height,
                   resized_image, paste_x, paste_y, rp_ret, rp_exc>>
    /\ UNCHANGED <<direct_vars, gi_vars, cell_vars, env_vars>>

\* return new_image
ReturnNewImage ==
    /\ rp_pc = "l152"
    /\ rp_ret' = new_image
    /\ rp_pc' = "returned"
    /\ UNCHANGED <<rp_caller, image, target_size, aspect_ratio, new_width, new_height,
                   resized_image, new_image, paste_x, paste_y, rp_exc>>
    /\ UNCHANGED <<direct_vars, gi_vars, cell_vars, env_vars>>

\* a direct caller hands the result back in, with the same target size
NormalizeAgain ==
    /\ rp_caller = "direct"
    /\ rp_pc = "returned"
    /\ pass < MaxPasses
    /\ EnterResizeAndPad(rp_ret[1], target_size[1], "direct")
    /\ pass' = pass + 1
    /\ prev_ret' = rp_ret
    /\ UNCHANGED <<gi_vars, cell_vars, env_vars>>

(***************************************************************************)
(* generate_images(prompt, image, steps, n, strength, guidance, size,      *)
(* show = True), statement by statement.                                   *)
(***************************************************************************)
NegativePrompt ==
    "clear background, realistic photo, photography, ugly, fused, worst face, extra face, poorly drawn, duplicate, bad eyes, bad proportions"

\* what the pipeline may raise
PipelineErrors == {"OutOfMemoryError", "ValueError"}

\* the k-th image of a batch the pipeline returns; a batch is decoded from one
\* tensor, so its images share their size
RawImage(k, w, h) == SourceImage(k, w, h)

\* the list the pipeline returns; nothing in generate_images checks its length
\* against n
RawBatch(len, w, h) == [k \in 1..len |-> RawImage(k, w, h)]

\* (a variant that normalizes the first image every time)
LoopItemFirst(imgs, i) == imgs[1]

\* images[i], for the loop index i of range(n)
LoopItem(imgs, i) == imgs[i + 1]

\* the value generate_images returns
ReturnValue(imgs, resized) == imgs

EnterGenerateImages(args) ==
    /\ gi_pc' = "l215"
    /\ gi_args' = <<args>>
    /\ images_resized' = Unbound
    /\ images' = Unbound
    /\ loop_i' = Unbound
    /\ gi_ret' = Unbound
    /\ gi_exc' = NoExc
    /\ invocations' = Append(invocations, [args |-> args, outcome |-> "running"])

LeaveGenerateImages ==
    /\ gi_pc' = "idle"
    /\ gi_args' = Unbound
    /\ images_resized' = Unbound
    /\ images' = Unbound
    /\ loop_i' = Unbound
    /\ gi_ret' = Unbound
    /\ gi_exc' = NoExc

Ended(outcome) ==
    invocations' = [invocations EXCEPT ![Len(invocations)].outcome = outcome]

\* images_resized = []
InitResized ==
    /\ gi_pc = "l215"
    /\ images_resized' = << << >> >>
    /\ gi_pc' = "l216"
    /\ UNCHANGED <<gi_args, images, loop_i, gi_ret, gi_exc>>
    /\ UNCHANGED <<rp_vars, direct_vars, cell_vars, env_vars>>

\* one call of the pipeline, as the surroundings see it: the arguments, and the
\* error it raised ("none" when it returned)
PipelineCall(raised) ==
    [invocation      |-> Len(invocations),
     raised          |-> raised,
     prompt          |-> gi_args[1].prompt,
     image           |-> gi_args[1].image,
     num_inference_steps   |-> gi_args[1].steps,
     num_images_per_prompt |-> gi_args[1].n,
     strength        |-> gi_args[1].strength,
     guidance_scale  |-> gi_args[1].guidance,
     negative_prompt |-> NegativePrompt]

\* images = pipeline(...).images, the pipeline returning a list of images
PipelineReturns ==
    /\ gi_pc = "l216"
    /\ calls' = Append(calls, PipelineCall("none"))
    /\ \E len \in 0..MaxBatch, w \in 1..MaxRaw, h \in 1..MaxRaw :
           images' = <<RawBatch(len, w, h)>>
    /\ loop_i' = <<0>>
    /\ gi_pc' = "l217"
    /\ UNCHANGED <<gi_args, images_resized, gi_ret, gi_exc>>
    /\ UNCHANGED <<rp_vars, direct_vars, cell_vars, displayed, invocations>>

\* (a variant that swallows the pipeline's error and returns an empty list)
PipelineErrorSwallowed ==
    /\ gi_pc = "l216"
    /\ \E e \in PipelineErrors : calls' = Append(calls, PipelineCall(e))
    /\ gi_ret' = << << >> >>
    /\ gi_pc' = "returned"
    /\ Ended("returned")
    /\ UNCHANGED <<gi_args, images_resized, images, loop_i, gi_exc>>
    /\ UNCHANGED <<rp_vars, direct_vars, cell_vars, displayed>>

\* images = pipeline(...).images, the pipeline raising
PipelineRaises ==
    /\ gi_pc = "l216"
    /\ \E e \in PipelineErrors :
        /\ calls' = Append(calls, PipelineCall(e))
        /\ gi_exc' = [type |-> e, origin |-> "pipeline"]
    /\ gi_pc' = "raised"
    /\ Ended("raised")
    /\ UNCHANGED <<gi_args, images_resized, images, loop_i, gi_ret>>
    /\ UNCHANGED <<rp_vars, direct_vars, cell_vars, displayed>>

\* for i in range(n): ... resize_and_pad(images[i], size)
LoopCallNormalizer ==
    /\ gi_pc = "l217"
    /\ loop_i[1] < gi_args[1].n
    /\ loop_i[1] < Len(images[1])
    /\ rp_pc = "idle"
    /\ EnterResizeAndPad(LoopItem(images[1], loop_i[1]), gi_args[1].size, "generate_images")
    /\ gi_pc' = "l218"
    /\ UNCHANGED <<gi_args, images_resized, images, loop_i, gi_ret, gi_exc>>
    /\ UNCHANGED <<direct_vars, cell_vars, env_vars>>

\* images[i] with i past the end of the list the pipeline returned: IndexError,
\* before resize_and_pad is called; nothing catches it
LoopIndexError ==
    /\ gi_pc = "l217"
    /\ loop_i[1] < gi_args[1].n
    /\ loop_i[1] >= Len(images[1])
    /\ gi_exc' = [type |-> "IndexError", origin |-> "generate_images:218"]
    /\ gi_pc' = "raised"
    /\ Ended("raised")
    /\ UNCHANGED <<gi_args, images_resized, images, loop_i, gi_ret>>
    /\ UNCHANGED <<rp_vars, direct_vars, cell_vars, calls, displayed>>

\* images_resized.append(<the image resize_and_pad returned>)
AppendResized ==
    /\ gi_pc = "l218"
    /\ rp_pc = "returned"
    /\ images_resized' = <<Append(images_resized[1], rp_ret[1])>>
    /\ loop_i' = <<loop_i[1] + 1>>
    /\ LeaveResizeAndPad
    /\ gi_pc' = "l217"
    /\ UNCHANGED <<gi_args, images, gi_ret, gi_exc>>
    /\ UNCHANGED <<direct_vars, cell_vars, env_vars>>

\* resize_and_pad raised: nothing catches it
NormalizerRaises ==
    /\ gi_pc = "l218"
    /\ rp_pc = "raised"
    /\ gi_exc' = rp_exc
    /\ LeaveResizeAndPad
    /\ gi_pc' = "raised"
    /\ Ended("raised")
    /\ UNCHANGED <<gi_args, images_resized, images, loop_i, gi_ret>>
    /\ UNCHANGED <<direct_vars, cell_vars, calls, displayed>>

\* the loop is over
LoopExit ==
    /\ gi_pc = "l217"
    /\ loop_i[1] >= gi_args[1].n
    /\ gi_pc' = "l219"
    /\ UNCHANGED <<gi_args, images_resized, images, loop_i, gi_ret, gi_exc>>
    /\ UNCHANGED <<rp_vars, direct_vars, cell_vars, env_vars>>

\* if show: display(make_image_grid([*images_resized], rows=1, cols=n))
Display ==
    /\ gi_pc = "l219"
    /\ IF gi_args[1].show
       THEN displayed' = Append(displayed,
                [invocation |-> Len(invocations), rows |-> 1, cols |-> gi_args[1].n,
                 cells |-> Len(images_resized[1])])
       ELSE UNCHANGED displayed
    /\ gi_pc' = "l221"
    /\ UNCHANGED <<gi_args, images_resized, images, loop_i, gi_ret, gi_exc>>
    /\ UNCHANGED <<rp_vars, direct_vars, cell_vars, calls, invocations>>

\* return images
ReturnImages ==
    /\ gi_pc = "l221"
    /\ gi_ret' = <<ReturnValue(images[1], images_resized[1])>>
    /\ gi_pc' = "returned"
    /\ Ended("returned")
    /\ UNCHANGED <<gi_args, images_resized, images, loop_i, gi_exc>>
    /\ UNCHANGED <<rp_vars, direct_vars, cell_vars, calls, displayed>>

(***************************************************************************)
(* The cell that loops over the prompts:                                   *)
(*   for i in range(len(prompts)):                                         *)
(*       generate_images(prompts[i] + ', animation, ...', image, **kwargs2)*)
(***************************************************************************)
prompts ==
    <<"studio ghibli, anime, adorable",
      "pokemon, pokemon style, anime, colorful",
      "manga, hand-drawn, Takeuchi Naoko style, cute",
      "cartoon, disney, modern disney, bambi style, frozen movie, princess, Keane Glen, adorable, cute",
      "anime, chibi, cute, adorable, fun, joy, Himouto! Umaru-chan, Lucky Stary">>

PromptSuffix == ", animation, woman smiling with dog"

\* image = init_image, the photograph loaded from file
init_image == SourceImage(9, 2, 1)

\* kwargs2, with n and size drawn from the bounded sets
Kwargs(n, size) ==
    [steps |-> 40, n |-> n, strength |-> "0.55", guidance |-> 19, size |-> size]

SweepArgs(i) ==
    [prompt |-> prompts[i + 1] \o PromptSuffix, image |-> init_image,
     steps |-> kwargs.steps, n |-> kwargs.n, strength |-> kwargs.strength,
     guidance |-> kwargs.guidance, size |-> kwargs.size, show |-> TRUE]

\* the next iteration calls generate_images
SweepInvoke ==
    /\ cell_pc = "l269"
    /\ prompt_i < Len(prompts)
    /\ gi_pc = "idle"
    /\ EnterGenerateImages(SweepArgs(prompt_i))
    /\ cell_pc' = "l270"
    /\ UNCHANGED <<prompt_i, kwargs, cell_exc>>
    /\ UNCHANGED <<rp_vars, direct_vars, calls, displayed>>

\* generate_images returned; its value is dropped
SweepNext ==
    /\ cell_pc = "l270"
    /\ gi_pc = "returned"
    /\ LeaveGenerateImages
    /\ prompt_i' = prompt_i + 1
    /\ cell_pc' = "l269"
    /\ UNCHANGED <<kwargs, cell_exc>>
    /\ UNCHANGED <<rp_vars, direct_vars, env_vars>>

\* (a variant that skips a failed prompt and goes on with the next one)
SweepContinue ==
    /\ cell_pc = "l270"
    /\ gi_pc = "raised"
    /\ LeaveGenerateImages
    /\ prompt_i' = prompt_i + 1
    /\ cell_pc' = "l269"
    /\ UNCHANGED <<kwargs, cell_exc>>
    /\ UNCHANGED <<rp_vars, direct_vars, env_vars>>

\* generate_images raised: the loop has no handler, the cell ends with the error
SweepAbort ==
    /\ cell_pc = "l270"
    /\ gi_pc = "raised"
    /\ cell_exc' = gi_exc
    /\ cell_pc' = "raised"
    /\ UNCHANGED <<prompt_i, kwargs>>
    /\ UNCHANGED <<rp_vars, direct_vars, gi_vars, env_vars>>

\* range(len(prompts)) is exhausted
SweepDone ==
    /\ cell_pc = "l269"
    /\ prompt_i = Len(prompts)
    /\ cell_pc' = "done"
    /\ UNCHANGED <<prompt_i, kwargs, cell_exc>>
    /\ UNCHANGED <<rp_vars, direct_vars, gi_vars, env_vars>>

(***************************************************************************)
(* The two programs: the cell's sweep, and a direct call of                *)
(* resize_and_pad on any image and target size.                            *)
(***************************************************************************)
IdleResizeAndPad ==
    /\ rp_pc = "idle"
    /\ rp_caller = "none"
    /\ image = Unbound
    /\ target_size = Unbound
    /\ aspect_ratio = Unbound
    /\ new_width = Unbound
    /\ new_height = Unbound
    /\ resized_image = Unbound
    /\ new_image = Unbound
    /\ paste_x = Unbound
    /\ paste_y = Unbound
    /\ rp_ret = Unbound
    /\ rp_exc = NoExc

IdleGenerateImages ==
    /\ gi_pc = "idle"
    /\ gi_args = Unbound
    /\ images_resized = Unbound
    /\ images = Unbound
    /\ loop_i = Unbound
    /\ gi_ret = Unbound
    /\ gi_exc = NoExc

QuietSurroundings ==
    /\ calls = << >>
    /\ displayed = << >>
    /\ invocations = << >>

Init ==
    /\ IdleResizeAndPad
    /\ IdleGenerateImages
    /\ QuietSurroundings
    /\ pass = 0
    /\ prev_ret = Unbound
    /\ cell_pc = "l269"
    /\ prompt_i = 0
    /\ cell_exc = NoExc
    /\ \E n \in 1..MaxN, size \in 1..MaxSize : kwargs = Kwargs(n, size)

NormalizerSteps ==
    \/ ComputeAspectRatio
    \/ ScaleWide
    \/ ScaleTall
    \/ Resize
    \/ NewCanvas
    \/ ComputePasteOffsets
    \/ Paste
    \/ ReturnNewImage

Next ==
    \/ SweepInvoke
    \/ SweepNext
    \/ SweepAbort
    \/ SweepDone
    \/ InitResized
    \/ PipelineReturns
    \/ PipelineRaises
    \/ LoopCallNormalizer
    \/ LoopIndexError
    \/ AppendResized
    \/ NormalizerRaises
    \/ LoopExit
    \/ Display
    \/ ReturnImages
    \/ NormalizerSteps

Spec == Init /\ [][Next]_vars

\* the worked examples of the normalizer: 200x100 and 100x200 at target 100
ExampleInputs == {<<200, 100, 100>>, <<100, 200, 100>>}

DirectInputs ==
    ((0..MaxDim) \X (0..MaxDim) \X ((0 - MaxNeg)..MaxTarget)) \cup ExampleInputs

InitDirect ==
    /\ \E in \in DirectInputs :
        /\ image = <<SourceImage(1, in[1], in[2])>>
        /\ target_size = <<in[3]>>
    /\ rp_pc = "l134"
    /\ rp_caller = "direct"
    /\ aspect_ratio = Unbound
    /\ new_width = Unbound
    /\ new_height = Unbound
    /\ resized_image = Unbound
    /\ new_image = Unbound
    /\ paste_x = Unbound
    /\ paste_y = Unbound
    /\ rp_ret = Unbound
    /\ rp_exc = NoExc
    /\ IdleGenerateImages
    /\ QuietSurroundings
    /\ pass = 1
    /\ prev_ret = Unbound
    /\ cell_pc = "none"
    /\ prompt_i = 0
    /\ cell_exc = NoExc
    /\ kwargs = Kwargs(1, 1)

NextDirect ==
    \/ NormalizerSteps
    \/ NormalizeAgain

SpecDirect == InitDirect /\ [][NextDirect]_vars

(***************************************************************************)
(* Properties of resize_and_pad (checked under SpecDirect).                *)
(***************************************************************************)
InCall == rp_pc \notin {"idle"}

Valid ==
    /\ InCall
    /\ image[1].width >= 1
    /\ image[1].height >= 1
    /\ target_size[1] >= 1

Sized == rp_pc \in {"l142", "l145", "l148", "l150", "l152", "returned"}

Pasted == rp_pc \in {"l152", "returned"}

\* C1: for every image with width >= 1 and height >= 1 and every target size
\* T >= 1, resize_and_pad returns an image exactly T wide and T high.
C1_OutputIsTargetSquare ==
    (Valid /\ rp_pc \in {"returned", "raised"}) =>
        /\ rp_pc = "returned"
        /\ rp_ret[1].width = target_size[1]
        /\ rp_ret[1].height = target_size[1]

\* C2 as stated: the scaled side is the exact aspect-preserving value rounded to
\* the nearest integer, so it is within half a pixel of that value.
C2_RoundedToNearest ==
    (Valid /\ Sized) =>
        LET w == image[1].width
            h == image[1].height
            T == target_size[1]
        IN  IF w > h
            THEN /\ new_width[1] = T
                 /\ 2 * Abs(new_height[1] * w - T * h) <= w
            ELSE /\ new_height[1] = T
                 /\ 2 * Abs(new_width[1] * h - T * w) <= h

\* C2 as amended: the scaled side is the truncation of the double-precision
\* quotient or product: it never exceeds the exact aspect-preserving value and
\* is at most one pixel short of it.
C2_TruncatedTowardZero ==
    (Valid /\ Sized) =>
        LET w == image[1].width
            h == image[1].height
            T == target_size[1]
        IN  IF w > h
            THEN /\ new_width[1] = T
                 /\ new_height[1] * w <= T * h
                 /\ T * h - new_height[1] * w <= w
            ELSE /\ new_height[1] = T
                 /\ new_width[1] * h <= T * w
                 /\ T * w - new_width[1] * h <= h

\* a 9x7 image at target 9: the exact height is 7, the computed height is 6
C2_Witness ==
    /\ Valid /\ rp_pc = "l142"
    /\ image[1].width > image[1].height
    /\ target_size[1] * image[1].height - new_height[1] * image[1].width = image[1].width

\* C3: the scaled content is pasted at floor((T - new_width) / 2),
\* floor((T - new_height) / 2); the pasted rectangle lies inside the T x T canvas,
\* the padding before it on each axis is at most the padding after it and they
\* differ by at most one, and every pixel outside it is black (200x100 at T = 100
\* gives 100x50 at (0, 25) with rows 0-24 and 75-99 black; 100x200 gives 50x100
\* at (25, 0)).
C3_CenteredInsideCanvas ==
    (Valid /\ Pasted) =>
        LET T  == target_size[1]
            nw == new_width[1]
            nh == new_height[1]
            x  == paste_x[1]
            y  == paste_y[1]
            cv == new_image[1]
            inside(c) == x <= c[1] /\ c[1] < x + nw /\ y <= c[2] /\ c[2] < y + nh
        IN  /\ 0 <= x /\ x + nw <= T
            /\ 0 <= y /\ y + nh <= T
            /\ x <= T - nw - x /\ T - nw - x <= x + 1
            /\ y <= T - nh - y /\ T - nh - y <= y + 1
            /\ cv.width = T /\ cv.height = T
            /\ \A c \in Coords(T, T) :
                   IF inside(c)
                   THEN cv.px[c] = resized_image[1].px[<<c[1] - x, c[2] - y>>]
                   ELSE cv.px[c] = FillColor
            /\ (image[1].width = 200 /\ image[1].height = 100 /\ T = 100) =>
                   /\ nw = 100 /\ nh = 50 /\ x = 0 /\ y = 25
                   /\ \A c \in Coords(T, T) :
                          (c[2] <= 24 \/ c[2] >= 75) => cv.px[c] = FillColor
            /\ (image[1].width = 100 /\ image[1].height = 200 /\ T = 100) =>
                   /\ nw = 50 /\ nh = 100 /\ x = 25 /\ y = 0

\* content has been pasted below an odd amount of padding: the extra row of
\* padding is after the content, the row just before the content is black
C3_Witness ==
    /\ Valid /\ rp_pc = "returned"
    /\ (target_size[1] - new_height[1]) % 2 = 1
    /\ paste_y[1] >= 1
    /\ target_size[1] - new_height[1] - paste_y[1] = paste_y[1] + 1
    /\ new_image[1].px[<<0, paste_y[1] - 1>>] = FillColor
    /\ new_image[1].px[<<0, paste_y[1]>>] # FillColor

\* C4: with image width <= 0, image height <= 0 or target_size <= 0 the call
\* ends in an error, before any image is resized or any canvas is allocated, and
\* no image is returned.
C4_InvalidDimensionRejected ==
    (/\ InCall
     /\ image[1].width <= 0 \/ image[1].height <= 0 \/ target_size[1] <= 0) =>
        /\ resized_image = Unbound
        /\ new_image = Unbound
        /\ rp_ret = Unbound
        /\ rp_pc \in {"l134", "l135", "l142", "raised"}

\* C5: for a square input (so also for a T x T image, such as the normalizer's own
\* output) the scaled content is exactly T x T at (0, 0) and fills the canvas;
\* normalizing the normalizer's output again gives the same image.
C5_SquareFillsCanvasAndIdempotent ==
    (Valid /\ image[1].width = image[1].height /\ rp_pc = "returned") =>
        /\ new_width = target_size
        /\ new_height = target_size
        /\ paste_x[1] = 0
        /\ paste_y[1] = 0
        /\ rp_ret[1].width = target_size[1]
        /\ rp_ret[1].height = target_size[1]
        /\ rp_ret[1].px = resized_image[1].px
        /\ \A c \in Coords(target_size[1], target_size[1]) :
               rp_ret[1].px[c][1] \in {image[1].px[<<0, 0>>][1] + Resampled} \cup
                   (IF image[1].width = target_size[1]
                    THEN {image[1].px[c][1]} ELSE {})
        /\ pass > 1 => rp_ret = prev_ret

\* a padded output of the first pass has been normalized again
C5_Witness ==
    /\ rp_pc = "returned"
    /\ pass = 2
    /\ \E c \in DOMAIN prev_ret[1].px : prev_ret[1].px[c] = FillColor
    /\ \E c \in DOMAIN prev_ret[1].px : prev_ret[1].px[c] # FillColor

\* C10: for every image with width >= 1 and height >= 1 and every T >= 1, both
\* scaled dimensions are between 1 and T, so resize is always given a positive
\* size.
C10_ScaledSizePositive ==
    (Valid /\ Sized) =>
        /\ 1 <= new_width[1] /\ new_width[1] <= target_size[1]
        /\ 1 <= new_height[1] /\ new_height[1] <= target_size[1]

(***************************************************************************)
(* Properties of generate_images and of the sweep (checked under Spec).    *)
(***************************************************************************)
InGenerateImages == gi_pc # "idle"

CallsOf(k) == {j \in 1..Len(calls) : calls[j].invocation = k}

DisplaysOf(k) == {j \in 1..Len(displayed) : displayed[j].invocation = k}

\* out is T x T and holds nothing but padding and content that comes from raw
NormalizedFrom(out, raw, T) ==
    /\ out.width = T
    /\ out.height = T
    /\ \A c \in DOMAIN out.px :
           \/ out.px[c] = FillColor
           \/ out.px[c][1] \in {raw.px[<<0, 0>>][1], raw.px[<<0, 0>>][1] + Resampled}
    /\ \E c \in DOMAIN out.px : out.px[c] # FillColor

\* C6: an invocation of generate_images calls the pipeline exactly once, always
\* with the same negative prompt, and only after that call has returned does it
\* normalize each of the n raw outputs once, in the pipeline's order and with
\* target_size = size, into a list of the same length and order.  (The n raw
\* outputs are those of a pipeline that returned n images; the loop runs over
\* range(n) whatever the pipeline returned.)
C6_OneCallThenNormalizeInOrder ==
    /\ \A i, j \in 1..Len(calls) : calls[i].negative_prompt = calls[j].negative_prompt
    /\ InGenerateImages =>
        LET k == Len(invocations)
            n == gi_args[1].n
        IN  /\ Cardinality(CallsOf(k)) = IF gi_pc \in {"l215", "l216"} THEN 0 ELSE 1
            /\ rp_pc # "idle" =>
                   /\ gi_pc = "l218"
                   /\ images # Unbound
                   /\ calls[Len(calls)].invocation = k
                   /\ calls[Len(calls)].raised = "none"
                   /\ rp_caller = "generate_images"
                   /\ Len(images_resized[1]) = loop_i[1]
                   /\ rp_pc = "l134" =>
                          /\ image[1] = images[1][loop_i[1] + 1]
                          /\ target_size[1] = gi_args[1].size
            /\ images = Unbound => images_resized \in {Unbound, << << >> >>}
            /\ images # Unbound =>
                   /\ Len(images_resized[1]) <= n
                   /\ Len(images_resized[1]) <= Len(images[1])
                   /\ Len(images[1]) = n =>
                          /\ gi_exc.type # "IndexError"
                          /\ gi_pc \in {"l219", "l221", "returned"} =>
                                 Len(images_resized[1]) = Len(images[1])
                   /\ \A j \in 1..Len(images_resized[1]) :
                          NormalizedFrom(images_resized[1][j], images[1][j], gi_args[1].size)
            /\ gi_pc \in {"l219", "l221", "returned"} => Len(images_resized[1]) = n

\* both images of a batch of two have been normalized and the call has returned
C6_Witness ==
    /\ gi_pc = "returned"
    /\ gi_args[1].n = 2
    /\ Len(images[1]) = 2
    /\ Len(images_resized[1]) = 2
    /\ images[1][1].width # gi_args[1].size

\* C7: when the pipeline returns N images for n = N, generate_images returns
\* exactly N images, each normalized to size x size.
C7_ReturnsNormalizedImages ==
    (gi_pc = "returned" /\ Len(images[1]) = gi_args[1].n) =>
        /\ Len(gi_ret[1]) = gi_args[1].n
        /\ \A j \in 1..Len(gi_ret[1]) :
               /\ gi_ret[1][j].width = gi_args[1].size
               /\ gi_ret[1][j].height = gi_args[1].size

\* C8: when the pipeline raises, generate_images ends with that very error: the
\* pipeline is not called again, nothing is normalized or displayed, and nothing
\* is returned; the caller receives the error.
C8_PipelineErrorPropagates ==
    \A j \in 1..Len(calls) :
        calls[j].raised # "none" =>
            LET k   == calls[j].invocation
                exc == [type |-> calls[j].raised, origin |-> "pipeline"]
            IN  /\ CallsOf(k) = {j}
                /\ DisplaysOf(k) = {}
                /\ invocations[k].outcome = "raised"
                /\ k = Len(invocations)
                /\ gi_pc = "raised"
                /\ gi_exc = exc
                /\ gi_ret = Unbound
                /\ images = Unbound
                /\ images_resized = << << >> >>
                /\ rp_pc = "idle"
                /\ cell_pc \in {"l270", "raised"}
                /\ cell_pc = "raised" => cell_exc = exc

\* the pipeline has raised and the cell has ended with its error
C8_Witness ==
    /\ cell_pc = "raised"
    /\ cell_exc.origin = "pipeline"
    /\ calls[Len(calls)].raised = cell_exc.type

\* C9: the sweep invokes generate_images once per prompt, in list order, each
\* invocation after the previous one has returned, with the same image and
\* configuration and nothing carried over; when an invocation fails the sweep
\* ends there and the pipeline is not called for any later prompt.
C9_SweepInOrderAbortsOnFailure ==
    /\ \A k \in 1..Len(invocations) :
           /\ invocations[k].args.prompt = prompts[k] \o PromptSuffix
           /\ invocations[k].args.image = init_image
           /\ invocations[k].args.steps = kwargs.steps
           /\ invocations[k].args.n = kwargs.n
           /\ invocations[k].args.strength = kwargs.strength
           /\ invocations[k].args.guidance = kwargs.guidance
           /\ invocations[k].args.size = kwargs.size
           /\ k < Len(invocations) => invocations[k].outcome = "returned"
    /\ Len(invocations) = prompt_i + (IF cell_pc \in {"l270", "raised"} THEN 1 ELSE 0)
    /\ \A j \in 1..Len(calls) :
           /\ calls[j].invocation = j
           /\ calls[j].prompt = prompts[j] \o PromptSuffix
           /\ calls[j].image = init_image
    /\ gi_pc = "l215" =>
           /\ images_resized = Unbound /\ images = Unbound /\ loop_i = Unbound
           /\ rp_pc = "idle" /\ image = Unbound /\ new_image = Unbound
    /\ cell_pc = "raised" =>
           /\ invocations[Len(invocations)].outcome = "raised"
           /\ Len(calls) = Len(invocations)
           /\ ~ENABLED Next

\* the third prompt has failed and the sweep has ended there
C9_Witness ==
    /\ cell_pc = "raised"
    /\ Len(invocations) = 3
    /\ Len(calls) = 3
    /\ invocations[1].outcome = "returned"
    /\ invocations[3].outcome = "raised"

====
